---- MODULE Spec2Model ----
(***************************************************************************)
(* Model of packages/hardhat-verify/src/index.ts: the verify task, the     *)
(* verify:verify compatibility subtask and the Etherscan verification      *)
(* subtask with the subtasks it runs.  One verification request is one     *)
(* sequential async flow; pc is the await the flow is suspended at.        *)
(* Collaborators that live outside index.ts (explorer transport, artifact  *)
(* store, compile tasks, bytecode class, utilities) answer each call with  *)
(* any value of their interface, or throw.                                 *)
(***************************************************************************)
EXTENDS Naturals, Sequences, FiniteSets, TLC

\* ------------------------------------------------------------------ bounds
MaxGuid == 2        \* request tokens the explorer may hand out: 1..MaxGuid
MaxMessage == 2     \* distinct status messages the explorer may report
MaxCode == 2        \* distinct normalized runtime bytecodes

\* --------------------------------------------------------------- constants
SettlingDelay == 700

Undefined == "undefined"
None == <<>>
Some(v) == <<v>>

Guids == 1..MaxGuid
Messages == 1..MaxMessage
Codes == 1..MaxCode

NetworkName == "sepolia"

\* JS values of the types.any parameters, tagged with what typeof/Array.isArray see
JsUndefined == [type |-> "undefined", value |-> <<>>]
JsString(s) == [type |-> "string", value |-> <<s>>]
JsArray(a) == [type |-> "array", value |-> a]
JsObject(m) == [type |-> "object", value |-> m]
typeof(v) == IF v.type = "array" THEN "object" ELSE v.type
isArray(v) == v.type = "array"

ValidAddresses == {"0xA1", "0xA2"}
InvalidAddresses == {"0xZZ"}
isAddress(a) == a \in ValidAddresses

SourceNames == {"A.sol", "B.sol"}
\* the files of the whole compilation a build info was produced from
ProjectSources == SourceNames \cup {"Unrelated.sol"}
ContractNames == {"Foo", "Bar"}
FQN(sourceName, contractName) == sourceName \o ":" \o contractName
isFullyQualifiedName(name) ==
    \E s \in SourceNames, c \in ContractNames : name = FQN(s, c)

\* library-to-address maps, as sets of <<library, address>>
NoLibraries == {}
LibraryMaps == {NoLibraries, {<<"Lib", "0xL1">>}}

SolcVersions == {"0.8.1", "0.8.2"}
includes(list, x) == \E i \in 1..Len(list) : list[i] = x
SolcLongVersion(v) == v \o "+commit"

\* errors: the class thrown and the arguments its constructor got
Error(name, args) == [name |-> name, args |-> args]
\* an error raised inside a collaborator that index.ts calls and does not catch
CollaboratorError(where) == Error("Error", <<where>>)

Running == [status |-> "running", error |-> Error("", <<>>)]
Returned == [status |-> "returned", error |-> Error("", <<>>)]
Thrown(e) == [status |-> "thrown", error |-> e]

\* a collaborator call: the attempt it was made in, its token or delay, and for
\* the explorer's answers the state and message reported ("throws": it threw)
Call(op, att, arg, state, message) ==
    [op |-> op, attempt |-> att, arg |-> arg, state |-> state, message |-> message]

\* ------------------------------------------------------------------- state
VARIABLES
    config,                      \* the resolved Hardhat config (extendConfig)
    pc,                          \* the await the request is suspended at
    entry,                       \* the task the user ran
    batch,                       \* locals of TASK_VERIFY
    subtaskArgs,                 \* the arguments TASK_VERIFY_VERIFY was run with
    taskArgs,                    \* the arguments TASK_VERIFY_ETHERSCAN was run with
    address, constructorArgs, libraries, contractFQN,   \* the VerificationArgs
    configCompilerVersions,      \* what getCompilerVersions answered, <<>> until then
    deployedBytecode,            \* None until fetched
    matchingCompilerVersions,
    buildInfo,                   \* named mode: what artifacts.getBuildInfo answered
    contractInformation,         \* None until resolved
    heap,                        \* the CompilerInput objects, by reference
    minimalInput,                \* reference returned by GET_MINIMAL_INPUT
    encodedConstructorArguments,
    attempt,                     \* the ATTEMPT_VERIFICATION run in progress
    guid,                        \* the token of the attempt in progress
    verificationStatus,          \* what the poll of the attempt in progress answered
    responses,                   \* the VerificationResponse each attempt returned
    calls,                       \* the collaborator calls made so far, in order
    requests,                    \* the submissions made so far, in order
    dependencyGraph,             \* source names of the resolved files, None until built
    outcome,                     \* how the run of TASK_VERIFY_ETHERSCAN ended (of
                                 \* TASK_VERIFY_RESOLVE_ARGUMENTS, when run on its own)
    result                       \* how the task the user ran ended

outerVars == <<config, entry, batch, subtaskArgs>>
argVars == <<taskArgs, address, constructorArgs, libraries, contractFQN>>
resolveVars == <<configCompilerVersions, deployedBytecode, matchingCompilerVersions, buildInfo,
                 contractInformation>>
inputVars == <<heap, minimalInput, encodedConstructorArguments, dependencyGraph>>
attemptVars == <<attempt, guid, verificationStatus, responses>>
logVars == <<calls, requests>>
vars == <<outerVars, pc, argVars, resolveVars, inputVars, attemptVars, logVars, outcome, result>>

Refs == {"buildInfo.input", "compilerInput", "cloneDeep"}
NullRef == "null"

NoBatch == [subtasks |-> <<>>, next |-> 1, errors |-> {}, hasErrors |-> FALSE,
            printed |-> <<>>, exitCode |-> 0, exited |-> FALSE]
NoStatus == [state |-> "", message |-> 0]
NoArgs == [address |-> Undefined, constructorArgsParams |-> JsUndefined,
           constructorArgs |-> Undefined, libraries |-> JsUndefined,
           contract |-> Undefined, listNetworks |-> FALSE]

NoSubtaskArgs == [address |-> Undefined, constructorArguments |-> JsUndefined,
                  libraries |-> JsUndefined, contract |-> Undefined]

Configs == [etherscan : BOOLEAN, sourcify : BOOLEAN, solidity : {<<"0.8.1", "0.8.2">>}]

Init ==
    /\ config \in Configs
    /\ pc = "idle"
    /\ entry = "none"
    /\ subtaskArgs = NoSubtaskArgs
    /\ batch = NoBatch
    /\ taskArgs = NoArgs
    /\ address = Undefined
    /\ constructorArgs = <<>>
    /\ libraries = NoLibraries
    /\ contractFQN = Undefined
    /\ configCompilerVersions = <<>>
    /\ deployedBytecode = None
    /\ matchingCompilerVersions = <<>>
    /\ buildInfo = None
    /\ contractInformation = None
    /\ heap = [r \in Refs |-> None]
    /\ minimalInput = NullRef
    /\ encodedConstructorArguments = Undefined
    /\ attempt = "none"
    /\ guid = 0
    /\ verificationStatus = NoStatus
    /\ responses = [a \in {"minimal", "full"} |-> None]
    /\ calls = <<>>
    /\ requests = <<>>
    /\ dependencyGraph = None
    /\ outcome = Running
    /\ result = Running

\* A throw and a return of TASK_VERIFY_ETHERSCAN, and the rejection of its run:
\* control goes back to whoever ran it.
EtherscanThrow(e) == pc' = "etherscanEnded" /\ outcome' = Thrown(e)
EtherscanReturn == pc' = "etherscanEnded" /\ outcome' = Returned
Log(op) == calls' = Append(calls, Call(op, attempt, 0, "", 0))
\* an awaited collaborator call rejects and nothing catches it
Rejects(op) ==
    /\ calls' = Append(calls, Call(op, attempt, 0, "throws", 0))
    /\ EtherscanThrow(CollaboratorError(op))

TASK_VERIFY_ETHERSCAN == "verify:etherscan"
TASK_VERIFY_SOURCIFY == "verify:sourcify"
TASK_VERIFY_SOURCIFY_DISABLED_WARNING == "verify:sourcify-disabled-warning"
TASK_VERIFY_RESOLVE_ARGUMENTS == "verify:resolve-arguments"

\* line 232: TASK_VERIFY_ETHERSCAN declares address with addParam, so the task
\* runner refuses a run that gives it no value, before the action is started
MissingTaskArgument(args) == args.address = Undefined
MissingTaskArgumentError ==
    Error("HardhatError", <<"HH306", "address", TASK_VERIFY_ETHERSCAN>>)

\* ------------------------------------------- TASK_VERIFY_RESOLVE_ARGUMENTS
\* a script's run of the subtask on its own: every parameter is optional
\* (lines 354-360)
ResolveArgumentsArgs ==
    [address : {Undefined, "0xA1"},
     constructorArgsParams : {JsArray(<<"7">>)},
     constructorArgs : {Undefined},
     libraries : {JsUndefined},
     contract : {"Foo", "A.sol:Foo"},
     listNetworks : {FALSE}]

RunResolveArguments ==
    /\ pc = "idle"
    /\ entry' = TASK_VERIFY_RESOLVE_ARGUMENTS
    /\ \E a \in ResolveArgumentsArgs : taskArgs' = a
    /\ pc' = "resolveArguments"
    /\ UNCHANGED <<config, batch, subtaskArgs, address, constructorArgs, libraries, contractFQN,
                   resolveVars, inputVars, attemptVars, logVars, outcome, result>>

\* the run settles for the script as the subtask ended
ResolveArgumentsEnd ==
    /\ pc = "etherscanEnded"
    /\ entry = TASK_VERIFY_RESOLVE_ARGUMENTS
    /\ result' = outcome
    /\ pc' = "done"
    /\ UNCHANGED <<outerVars, argVars, resolveVars, inputVars, attemptVars, logVars, outcome>>

\* lines 395-400: the VerificationArgs are returned, to TASK_VERIFY_ETHERSCAN
\* (line 245) or to the script that ran the subtask
ReturnVerificationArgs ==
    IF entry = TASK_VERIFY_RESOLVE_ARGUMENTS
    THEN EtherscanReturn
    ELSE pc' = "getCurrentChainConfig" /\ UNCHANGED outcome

\* lines 369-373: the address must be given; the module that checks addresses
\* is then imported, and the run is suspended until it is loaded
ResolveArguments_validate ==
    /\ pc = "resolveArguments"
    /\ UNCHANGED <<outerVars, argVars, resolveVars, inputVars, attemptVars, logVars, result>>
    /\ IF taskArgs.address = Undefined
       THEN EtherscanThrow(Error("MissingAddressError", <<>>))
       ELSE pc' = "importIsAddress" /\ UNCHANGED outcome

IMPORT_ADDRESS == "import(@ethersproject/address)"

\* mutant: the contract name is checked before the address
ResolveArguments_checks_NameFirst ==
    /\ pc = "importIsAddress"
    /\ UNCHANGED <<outerVars, argVars, resolveVars, inputVars, attemptVars, requests, result>>
    /\ \/ /\ Log(IMPORT_ADDRESS)
          /\ IF taskArgs.contract # Undefined /\ ~isFullyQualifiedName(taskArgs.contract)
             THEN EtherscanThrow(Error("InvalidContractNameError", <<taskArgs.contract>>))
             ELSE IF ~isAddress(taskArgs.address)
             THEN EtherscanThrow(Error("InvalidAddressError", <<taskArgs.address>>))
             ELSE pc' = "resolveConstructorArguments" /\ UNCHANGED outcome
       \/ Rejects(IMPORT_ADDRESS)

\* lines 373-380: the module is loaded, or the import rejects; then the address
\* and the contract name are checked, in the order the code checks them
ResolveArguments_checks ==
    /\ pc = "importIsAddress"
    /\ UNCHANGED <<outerVars, argVars, resolveVars, inputVars, attemptVars, requests, result>>
    /\ \/ /\ Log(IMPORT_ADDRESS)
          /\ IF ~isAddress(taskArgs.address)
             THEN EtherscanThrow(Error("InvalidAddressError", <<taskArgs.address>>))
             ELSE IF taskArgs.contract # Undefined /\ ~isFullyQualifiedName(taskArgs.contract)
             THEN EtherscanThrow(Error("InvalidContractNameError", <<taskArgs.contract>>))
             ELSE pc' = "resolveConstructorArguments" /\ UNCHANGED outcome
       \/ Rejects(IMPORT_ADDRESS)

\* what a constructor-arguments module and a libraries module may export
ModuleConstructorArgs == {<<"9">>}
ModuleLibraries == {{<<"Lib", "0xL1">>}}

\* lines 382-385
ResolveArguments_constructorArgs ==
    /\ pc = "resolveConstructorArguments"
    /\ UNCHANGED <<outerVars, taskArgs, address, libraries, contractFQN, resolveVars,
                   inputVars, attemptVars, requests, result>>
    /\ \/ /\ taskArgs.constructorArgs = Undefined
          /\ constructorArgs' = taskArgs.constructorArgsParams.value
          /\ Log("resolveConstructorArguments")
          /\ pc' = "resolveLibraries" /\ UNCHANGED outcome
       \/ /\ taskArgs.constructorArgs # Undefined
          /\ \E exported \in ModuleConstructorArgs :
                constructorArgs' = exported
          /\ Log("resolveConstructorArguments")
          /\ pc' = "resolveLibraries" /\ UNCHANGED outcome
       \/ /\ taskArgs.constructorArgs # Undefined
          /\ Rejects("resolveConstructorArguments")
          /\ UNCHANGED constructorArgs

\* lines 387-400: libraries, then the VerificationArgs are returned (line 240-245)
ResolveArguments_libraries ==
    /\ pc = "resolveLibraries"
    /\ UNCHANGED <<outerVars, taskArgs, constructorArgs, resolveVars, inputVars,
                   attemptVars, requests, result>>
    /\ \/ /\ typeof(taskArgs.libraries) = "object"
          /\ libraries' = taskArgs.libraries.value
          /\ address' = taskArgs.address /\ contractFQN' = taskArgs.contract
          /\ ReturnVerificationArgs /\ UNCHANGED calls
       \/ /\ typeof(taskArgs.libraries) # "object"
          /\ Log("resolveLibraries")
          /\ \E resolved \in (IF taskArgs.libraries = JsUndefined
                              THEN {NoLibraries} ELSE ModuleLibraries) :
                libraries' = resolved
          /\ address' = taskArgs.address /\ contractFQN' = taskArgs.contract
          /\ ReturnVerificationArgs
       \/ /\ typeof(taskArgs.libraries) = "string"
          /\ Rejects("resolveLibraries")
          /\ UNCHANGED <<address, libraries, contractFQN>>

\* ------------------------------------------------------ TASK_VERIFY_ETHERSCAN
\* lines 247-256
GetCurrentChainConfig ==
    /\ pc = "getCurrentChainConfig"
    /\ UNCHANGED <<outerVars, argVars, resolveVars, inputVars, attemptVars, requests, result>>
    /\ \/ Log("getCurrentChainConfig") /\ pc' = "isVerified" /\ UNCHANGED outcome
       \/ Rejects("getCurrentChainConfig")

\* mutant: the answer is only reported and the verification goes on
IsVerified_Continues ==
    /\ pc = "isVerified"
    /\ UNCHANGED <<outerVars, argVars, resolveVars, inputVars, attemptVars, requests, result>>
    /\ \/ \E isVerified \in BOOLEAN :
             /\ calls' = Append(calls, Call("isVerified", attempt, 0,
                                            IF isVerified THEN "true" ELSE "false", 0))
             /\ pc' = "getCompilerVersions" /\ UNCHANGED outcome
       \/ Rejects("isVerified")

\* lines 258-264
IsVerified ==
    /\ pc = "isVerified"
    /\ UNCHANGED <<outerVars, argVars, resolveVars, inputVars, attemptVars, requests, result>>
    /\ \/ \E isVerified \in BOOLEAN :
             /\ calls' = Append(calls, Call("isVerified", attempt, 0,
                                            IF isVerified THEN "true" ELSE "false", 0))
             /\ IF isVerified THEN EtherscanReturn
                ELSE pc' = "getCompilerVersions" /\ UNCHANGED outcome
       \/ Rejects("isVerified")

\* what getCompilerVersions may answer for the solidity configuration: the
\* versions of its compilers
CompilerVersions(solidity) == {solidity}

\* line 266
GetCompilerVersions ==
    /\ pc = "getCompilerVersions"
    /\ UNCHANGED <<outerVars, argVars, deployedBytecode, matchingCompilerVersions, buildInfo,
                   contractInformation, inputVars, attemptVars, requests, result>>
    /\ \/ \E versions \in CompilerVersions(config.solidity) :
             /\ configCompilerVersions' = versions
             /\ Log("getCompilerVersions")
             /\ pc' = "getDeployedContractBytecode" /\ UNCHANGED outcome
       \/ /\ Rejects("getCompilerVersions")
          /\ UNCHANGED configCompilerVersions

\* deployed bytecode: alternate-VM flag, embedded version, normalized runtime code
Bytecodes == [isOvm : BOOLEAN, version : {"0.8.2"}, code : Codes]
isOvm(bytecode) == bytecode.isOvm
getVersion(bytecode) == bytecode.version
hasVersionRange(bytecode) == bytecode.version = "<0.4.7"

\* lines 268-272
GetDeployedContractBytecode ==
    /\ pc = "getDeployedContractBytecode"
    /\ UNCHANGED <<outerVars, argVars, configCompilerVersions, matchingCompilerVersions, buildInfo,
                   contractInformation, inputVars, attemptVars, requests, result>>
    /\ \/ \E bytecode \in Bytecodes :
             /\ deployedBytecode' = Some(bytecode)
             /\ Log("getDeployedContractBytecode")
             /\ pc' = "getMatchingVersions" /\ UNCHANGED outcome
       \/ /\ Rejects("getDeployedContractBytecode")
          /\ UNCHANGED deployedBytecode

\* what getMatchingVersions may keep of the configured versions
SubLists(list) == {SubSeq(list, i, Len(list)) : i \in 1..(Len(list) + 1)}

\* mutant: alternate-VM bytecode is not exempted
VersionsMismatch_IgnoresOvm(matching, bytecode) == Len(matching) = 0
\* line 278
VersionsMismatch(matching, bytecode) == Len(matching) = 0 /\ ~isOvm(bytecode)

\* lines 274-284
GetMatchingVersions ==
    /\ pc = "getMatchingVersions"
    /\ UNCHANGED <<outerVars, argVars, configCompilerVersions, deployedBytecode, buildInfo,
                   contractInformation,
                   inputVars, attemptVars, requests, result>>
    /\ \/ \E matching \in SubLists(configCompilerVersions) :
             /\ matchingCompilerVersions' = matching
             /\ Log("getMatchingVersions")
             /\ IF VersionsMismatch(matching, deployedBytecode[1])
                THEN EtherscanThrow(Error("CompilerVersionsMismatchError",
                        <<configCompilerVersions, getVersion(deployedBytecode[1]),
                          NetworkName>>))
                ELSE pc' = "getContractInformation" /\ UNCHANGED outcome
       \/ /\ Rejects("getMatchingVersions")
          /\ UNCHANGED matchingCompilerVersions

\* ----------------------------- TASK_VERIFY_ETHERSCAN_GET_CONTRACT_INFORMATION
\* a build info: the solc version that produced it and, of the contract asked
\* for, the normalized runtime bytecode in its output
BuildInfos == [solcVersion : SolcVersions, code : Codes]

\* the compiler input as the compile task leaves it: no libraries in the settings
CompilerInput(sources) == [sources |-> sources, settings |-> [libraries |-> NoLibraries]]

sourceNameOf(fqn) == CHOOSE s \in SourceNames : \E c \in ContractNames : fqn = FQN(s, c)
contractNameOf(fqn) == CHOOSE c \in ContractNames : \E s \in SourceNames : fqn = FQN(s, c)

ContractInfo(sourceName, contractName, solcVersion, code) ==
    [sourceName |-> sourceName, contractName |-> contractName,
     solcVersion |-> solcVersion, solcLongVersion |-> SolcLongVersion(solcVersion),
     compilerInput |-> "buildInfo.input", code |-> code,
     libraries |-> NoLibraries, undetectableLibraries |-> {}]

\* null unless the named contract's normalized bytecode is the deployed one
extractMatchingContractInformation(fqn, info, bytecode) ==
    IF info.code = bytecode.code
    THEN Some(ContractInfo(sourceNameOf(fqn), contractNameOf(fqn), info.solcVersion, info.code))
    ELSE None

\* mutant: the version check is made for alternate-VM bytecode too
BuildInfoVersionMismatch_IgnoresOvm(matching, info, bytecode) ==
    ~includes(matching, info.solcVersion)
\* lines 438-441
BuildInfoVersionMismatch(matching, info, bytecode) ==
    ~includes(matching, info.solcVersion) /\ ~isOvm(bytecode)

\* lines 442-448
BuildInfoCompilerVersionMismatchError(fqn, info, bytecode) ==
    Error("BuildInfoCompilerVersionMismatchError",
          <<fqn, getVersion(bytecode), hasVersionRange(bytecode), info.solcVersion,
            NetworkName>>)

\* mutant: the constructor's arguments are passed in the wrong order
DeployedBytecodeMismatchError_Swapped(fqn) ==
    Error("DeployedBytecodeMismatchError", <<fqn, NetworkName>>)
\* line 458
DeployedBytecodeMismatchError(fqn) ==
    Error("DeployedBytecodeMismatchError", <<NetworkName, fqn>>)

\* mutant: alternate-VM bytecode skips the comparison as it skips the version check
resolveNamed_OvmSkipsComparison(fqn, matching, info, bytecode) ==
    IF isOvm(bytecode)
    THEN [thrown |-> None,
          found |-> Some(ContractInfo(sourceNameOf(fqn), contractNameOf(fqn),
                                      info.solcVersion, info.code)),
          compared |-> FALSE]
    ELSE IF BuildInfoVersionMismatch(matching, info, bytecode)
    THEN [thrown |-> Some(BuildInfoCompilerVersionMismatchError(fqn, info, bytecode)),
          found |-> None, compared |-> FALSE]
    ELSE LET found == extractMatchingContractInformation(fqn, info, bytecode) IN
         IF found = None
         THEN [thrown |-> Some(DeployedBytecodeMismatchError(fqn)),
               found |-> None, compared |-> TRUE]
         ELSE [thrown |-> None, found |-> found, compared |-> TRUE]

\* lines 438-459: the version check, then the comparison; what is thrown, what
\* is found, and whether the bytecodes were compared at all
resolveNamed(fqn, matching, info, bytecode) ==
    IF BuildInfoVersionMismatch(matching, info, bytecode)
    THEN [thrown |-> Some(BuildInfoCompilerVersionMismatchError(fqn, info, bytecode)),
          found |-> None, compared |-> FALSE]
    ELSE LET found == extractMatchingContractInformation(fqn, info, bytecode) IN
         IF found = None
         THEN [thrown |-> Some(DeployedBytecodeMismatchError(fqn)),
               found |-> None, compared |-> TRUE]
         ELSE [thrown |-> None, found |-> found, compared |-> TRUE]

\* mutant: a throw of artifactExists is not caught
ArtifactExists_ThrowPropagates ==
    /\ pc = "getContractInformation"
    /\ contractFQN # Undefined
    /\ UNCHANGED <<outerVars, argVars, resolveVars, inputVars, attemptVars, requests, result>>
    /\ \E answer \in {"true", "false", "throws"} :
          /\ calls' = Append(calls, Call("artifactExists", attempt, 0, answer, 0))
          /\ IF answer = "throws"
             THEN EtherscanThrow(CollaboratorError("artifactExists"))
             ELSE IF answer = "false"
             THEN EtherscanThrow(Error("ContractNotFoundError", <<contractFQN>>))
             ELSE pc' = "getBuildInfo" /\ UNCHANGED outcome

\* lines 421-431: artifactExists, a throw of which counts as false
ArtifactExists ==
    /\ pc = "getContractInformation"
    /\ contractFQN # Undefined
    /\ UNCHANGED <<outerVars, argVars, resolveVars, inputVars, attemptVars, requests, result>>
    /\ \E answer \in {"true", "false", "throws"} :
          LET artifactExists == (answer = "true") IN
          /\ calls' = Append(calls, Call("artifactExists", attempt, 0, answer, 0))
          /\ IF ~artifactExists
             THEN EtherscanThrow(Error("ContractNotFoundError", <<contractFQN>>))
             ELSE pc' = "getBuildInfo" /\ UNCHANGED outcome

\* lines 433-459
GetBuildInfo ==
    /\ pc = "getBuildInfo"
    /\ UNCHANGED <<outerVars, argVars, configCompilerVersions, deployedBytecode,
                   matchingCompilerVersions,
                   minimalInput, encodedConstructorArguments, dependencyGraph,
                   attemptVars, requests, result>>
    /\ \/ /\ Rejects("getBuildInfo")
          /\ UNCHANGED <<buildInfo, contractInformation, heap>>
       \/ \E answer \in {None} \cup {Some(b) : b \in BuildInfos} :
          /\ buildInfo' = answer
          /\ IF answer = None
             THEN /\ EtherscanThrow(Error("BuildInfoNotFoundError", <<contractFQN>>))
                  /\ Log("getBuildInfo")
                  /\ UNCHANGED <<contractInformation, heap>>
             ELSE LET named == resolveNamed(contractFQN, matchingCompilerVersions,
                                            answer[1], deployedBytecode[1]) IN
                  /\ calls' = calls \o <<Call("getBuildInfo", attempt, 0, "", 0)>>
                        \o (IF named.compared
                            THEN <<Call("extractMatchingContractInformation",
                                        attempt, 0, "", 0)>>
                            ELSE <<>>)
                  /\ IF named.thrown # None
                     THEN /\ EtherscanThrow(named.thrown[1])
                          /\ UNCHANGED <<contractInformation, heap>>
                     ELSE /\ contractInformation' = named.found
                          /\ heap' = [heap EXCEPT !["buildInfo.input"] =
                                         Some(CompilerInput(ProjectSources))]
                          /\ pc' = "getLibraryInformation" /\ UNCHANGED outcome

\* what the scan over all artifacts may find: a contract built with a matched
\* version whose normalized bytecode is the deployed one
InferredContracts(matching, bytecode) ==
    {ContractInfo(sourceNameOf(fqn), contractNameOf(fqn), matching[i], bytecode.code) :
        fqn \in {"B.sol:Bar"}, i \in 1..Len(matching)}

\* lines 460-467: inferred mode; no match, or more than one, is an error of the scan
ExtractInferred ==
    /\ pc = "getContractInformation"
    /\ contractFQN = Undefined
    /\ UNCHANGED <<outerVars, argVars, configCompilerVersions, deployedBytecode,
                   matchingCompilerVersions, buildInfo,
                   minimalInput, encodedConstructorArguments, dependencyGraph,
                   attemptVars, requests, result>>
    /\ \/ \E found \in InferredContracts(matchingCompilerVersions, deployedBytecode[1]) :
             /\ contractInformation' = Some(found)
             /\ heap' = [heap EXCEPT !["buildInfo.input"] = Some(CompilerInput(ProjectSources))]
             /\ Log("extractInferredContractInformation")
             /\ pc' = "getLibraryInformation" /\ UNCHANGED outcome
       \/ /\ Rejects("extractInferredContractInformation")
          /\ UNCHANGED <<contractInformation, heap>>

\* what getLibraryInformation may answer: the merged address table and the
\* libraries only the constructor links
LibraryInformations ==
    {[libraries |-> NoLibraries, undetectableLibraries |-> {}],
     [libraries |-> {<<"Lib", "0xL1">>}, undetectableLibraries |-> {"Lib"}]}

\* lines 469-478
GetLibraryInformation ==
    /\ pc = "getLibraryInformation"
    /\ UNCHANGED <<outerVars, argVars, configCompilerVersions, deployedBytecode,
                   matchingCompilerVersions, buildInfo,
                   inputVars, attemptVars, requests, result>>
    /\ \/ \E info \in LibraryInformations :
             /\ contractInformation' = Some([contractInformation[1] EXCEPT
                    !.libraries = info.libraries,
                    !.undetectableLibraries = info.undetectableLibraries])
             /\ Log("getLibraryInformation")
             /\ pc' = "getDependencyGraph" /\ UNCHANGED outcome
       \/ /\ Rejects("getLibraryInformation")
          /\ UNCHANGED contractInformation

\* ------------------------------------ TASK_VERIFY_ETHERSCAN_GET_MINIMAL_INPUT
otherSource(s) == CHOOSE o \in SourceNames : o # s
\* the resolved files the dependency graph of [sourceName] may hold
DependencyGraphs(s) == {<<otherSource(s)>>, <<otherSource(s), s>>, <<s, otherSource(s), s>>}

\* lines 491-493
resolvedFilesNamed(graph, sourceName) == SelectSeq(graph, LAMBDA f : f = sourceName)
\* mutant: only a missing file is an error, several files are accepted
UnexpectedNumberOfFiles_OnlyMissing(resolvedFiles) == Len(resolvedFiles) = 0
\* line 495
UnexpectedNumberOfFiles(resolvedFiles) == Len(resolvedFiles) # 1

\* lines 484-497, run from lines 296-301
GetDependencyGraph ==
    /\ pc = "getDependencyGraph"
    /\ UNCHANGED <<outerVars, argVars, resolveVars, heap, minimalInput,
                   encodedConstructorArguments, attemptVars, requests, result>>
    /\ \/ \E graph \in DependencyGraphs(contractInformation[1].sourceName) :
             /\ dependencyGraph' = Some(graph)
             /\ Log("getDependencyGraph")
             /\ IF UnexpectedNumberOfFiles(
                      resolvedFilesNamed(graph, contractInformation[1].sourceName))
                THEN EtherscanThrow(Error("UnexpectedNumberOfFilesError", <<>>))
                ELSE pc' = "getCompilationJobForFile" /\ UNCHANGED outcome
       \/ /\ Rejects("getDependencyGraph")
          /\ UNCHANGED dependencyGraph

\* lines 499-505
GetCompilationJobForFile ==
    /\ pc = "getCompilationJobForFile"
    /\ UNCHANGED <<outerVars, argVars, resolveVars, inputVars, attemptVars, requests, result>>
    /\ \/ Log("getCompilationJobForFile") /\ pc' = "getCompilerInput" /\ UNCHANGED outcome
       \/ Rejects("getCompilationJobForFile")

Range(seq) == {seq[i] : i \in 1..Len(seq)}
\* a deep copy is a new object with the same content
cloneDeep(h, from, to) == [h EXCEPT ![to] = h[from]]

\* mutant: the compile task's input is returned itself, not a copy of it
returnedInput_NotCopied == "compilerInput"
\* line 514: what GET_MINIMAL_INPUT returns is the copy
returnedInput == "cloneDeep"

\* lines 507-514: the compile task's input, and the copy that is returned
GetCompilerInput ==
    /\ pc = "getCompilerInput"
    /\ UNCHANGED <<outerVars, argVars, resolveVars, encodedConstructorArguments,
                   dependencyGraph, attemptVars, requests, result>>
    /\ \/ LET built == [heap EXCEPT !["compilerInput"] =
                           Some(CompilerInput(Range(dependencyGraph[1])))] IN
          /\ heap' = cloneDeep(built, "compilerInput", "cloneDeep")
          /\ minimalInput' = returnedInput
          /\ Log("getCompilerInput")
          /\ pc' = "encodeArguments" /\ UNCHANGED outcome
       \/ /\ Rejects("getCompilerInput")
          /\ UNCHANGED <<heap, minimalInput>>

\* the ABI encoding of the constructor arguments, as a hex string
encodeArguments(args) == IF Len(args) = 0 THEN "" ELSE "00" \o args[1]

\* mutant: a failure to encode is swallowed and the request goes on without arguments
EncodeArguments_Swallowed ==
    /\ pc = "encodeArguments"
    /\ UNCHANGED <<outerVars, argVars, resolveVars, heap, minimalInput, dependencyGraph,
                   guid, verificationStatus, responses, requests, result, outcome>>
    /\ \/ /\ encodedConstructorArguments' = encodeArguments(constructorArgs)
          /\ Log("encodeArguments")
       \/ /\ encodedConstructorArguments' = ""
          /\ calls' = Append(calls, Call("encodeArguments", attempt, 0, "throws", 0))
    /\ attempt' = "minimal"
    /\ pc' = "verify"

\* lines 303-308; on success the minimal attempt is run (lines 310-318)
EncodeArguments ==
    /\ pc = "encodeArguments"
    /\ UNCHANGED <<outerVars, argVars, resolveVars, heap, minimalInput, dependencyGraph,
                   guid, verificationStatus, responses, requests, result>>
    /\ \/ /\ encodedConstructorArguments' = encodeArguments(constructorArgs)
          /\ Log("encodeArguments")
          /\ attempt' = "minimal"
          /\ pc' = "verify" /\ UNCHANGED outcome
       \/ /\ Rejects("encodeArguments")
          /\ UNCHANGED <<encodedConstructorArguments, attempt>>

\* --------------------------------- TASK_VERIFY_ETHERSCAN_ATTEMPT_VERIFICATION
\* mutant: the second run is handed the minimal input again
compilerInputOf_AlwaysMinimal(att) == minimalInput
\* the compilerInput argument of each run (lines 314 and 337)
compilerInputOf(att) ==
    IF att = "minimal" THEN minimalInput ELSE contractInformation[1].compilerInput

\* line 532: the assignment goes through the reference
injectLibraries(h, ref, libs) ==
    [h EXCEPT ![ref] = Some([h[ref][1] EXCEPT !.settings.libraries = libs])]

\* lines 534-540: what is handed to verificationInterface.verify
Submission(att, h) ==
    [attempt |-> att,
     address |-> address,
     compilerInput |-> h[compilerInputOf(att)][1],
     contract |-> FQN(contractInformation[1].sourceName, contractInformation[1].contractName),
     compilerVersion |-> "v" \o contractInformation[1].solcLongVersion,
     constructorArguments |-> encodedConstructorArguments]

\* lines 531-540: the libraries are written into the compiler input and the
\* request is handed to verificationInterface.verify; the run is then suspended
\* until the explorer answers
AttemptVerification_submit ==
    /\ pc = "verify"
    /\ heap' = injectLibraries(heap, compilerInputOf(attempt),
                               contractInformation[1].libraries)
    /\ requests' = Append(requests, Submission(attempt, heap'))
    /\ pc' = "verifyAnswer"
    /\ UNCHANGED <<outerVars, argVars, resolveVars, minimalInput,
                   encodedConstructorArguments, dependencyGraph, attemptVars, calls,
                   outcome, result>>

\* mutant: a submission of the minimal input that throws falls back to the full input
AttemptVerification_verify_FallsBack ==
    /\ pc = "verifyAnswer"
    /\ UNCHANGED <<outerVars, argVars, resolveVars, inputVars,
                   verificationStatus, responses, requests, result>>
    /\ \/ \E g \in Guids :
             /\ guid' = g
             /\ calls' = Append(calls, Call("verify", attempt, g, "ok", 0))
             /\ pc' = "sleep" /\ UNCHANGED <<outcome, attempt>>
       \/ /\ attempt = "minimal"
          /\ calls' = Append(calls, Call("verify", attempt, 0, "throws", 0))
          /\ attempt' = "full" /\ pc' = "verify"
          /\ UNCHANGED <<guid, outcome>>
       \/ /\ attempt = "full"
          /\ Rejects("verify")
          /\ UNCHANGED <<guid, attempt>>

\* lines 534-545: the explorer's answer to the submission, or its rejection
AttemptVerification_verify ==
    /\ pc = "verifyAnswer"
    /\ UNCHANGED <<outerVars, argVars, resolveVars, inputVars, attempt,
                   verificationStatus, responses, requests, result>>
    /\ \/ \E g \in Guids :
             /\ guid' = g
             /\ calls' = Append(calls, Call("verify", attempt, g, "ok", 0))
             /\ pc' = "sleep" /\ UNCHANGED outcome
       \/ /\ Rejects("verify")
          /\ UNCHANGED guid

\* lines 547-548
AttemptVerification_sleep ==
    /\ pc = "sleep"
    /\ calls' = Append(calls, Call("sleep", attempt, SettlingDelay, "", 0))
    /\ pc' = "getVerificationStatus"
    /\ UNCHANGED <<outerVars, argVars, resolveVars, inputVars, attemptVars, requests,
                   outcome, result>>

\* what the explorer may report for a token
VerificationStatuses ==
    [state : {"success", "failure", "pending", "unknown"}, message : Messages]
isSuccess(status) == status.state = "success"
isFailure(status) == status.state = "failure"

\* mutant: a pending status is taken for a failure
UnexpectedStatus_PendingFails(status) ==
    ~(isFailure(status) \/ isSuccess(status) \/ status.state = "pending")
\* line 552
UnexpectedStatus(status) == ~(isFailure(status) \/ isSuccess(status))
\* lines 565-568
VerificationResponse(status) == [success |-> isSuccess(status), message |-> status.message]
\* mutant: the status is asked for the token of the request's first submission
polledGuid_OfFirstSubmission ==
    calls[CHOOSE i \in DOMAIN calls :
            calls[i].op = "verify" /\ \A j \in 1..(i - 1) : calls[j].op # "verify"].arg
\* the token the status is asked for (line 550)
polledGuid == guid

\* lines 549-568
AttemptVerification_getVerificationStatus ==
    /\ pc = "getVerificationStatus"
    /\ UNCHANGED <<outerVars, argVars, resolveVars, inputVars, attempt, guid, requests,
                   result>>
    /\ \/ \E status \in VerificationStatuses :
             /\ calls' = Append(calls, Call("getVerificationStatus", attempt, polledGuid,
                                            status.state, status.message))
             /\ verificationStatus' = status
             /\ IF UnexpectedStatus(status)
                THEN /\ EtherscanThrow(Error("VerificationAPIUnexpectedMessageError",
                            <<status.message>>))
                     /\ UNCHANGED responses
                ELSE /\ responses' = [responses EXCEPT ![attempt] =
                                         Some(VerificationResponse(status))]
                     /\ pc' = "attemptReturned" /\ UNCHANGED outcome
       \/ /\ calls' = Append(calls, Call("getVerificationStatus", attempt, polledGuid,
                                         "throws", 0))
          /\ EtherscanThrow(CollaboratorError("getVerificationStatus"))
          /\ UNCHANGED <<verificationStatus, responses>>

\* ------------------------------------------- TASK_VERIFY_ETHERSCAN, the end
\* line 311 and lines 330-333: what the orchestrator keeps of each response
\* mutant: the minimal attempt's verdict is ignored
minimalInputVerificationSuccess_Ignored == FALSE
minimalInputVerificationSuccess == responses["minimal"][1].success
fullCompilerInputVerificationSuccess == responses["full"][1].success
\* mutant: the message kept is the first attempt's
verificationMessage_OfMinimal == responses["minimal"][1].message
verificationMessage == responses["full"][1].message

\* mutant: a failed minimal attempt is tried again instead of falling back
AfterMinimalAttempt_Retry ==
    /\ pc = "attemptReturned"
    /\ attempt = "minimal"
    /\ UNCHANGED <<outerVars, argVars, resolveVars, inputVars, guid, verificationStatus,
                   responses, logVars, result>>
    /\ IF minimalInputVerificationSuccess
       THEN EtherscanReturn /\ UNCHANGED attempt
       ELSE attempt' = "minimal" /\ pc' = "verify" /\ UNCHANGED outcome

\* lines 320-342: stop on success, else run the attempt again with the full input
AfterMinimalAttempt ==
    /\ pc = "attemptReturned"
    /\ attempt = "minimal"
    /\ UNCHANGED <<outerVars, argVars, resolveVars, inputVars, guid, verificationStatus,
                   responses, logVars, result>>
    /\ IF minimalInputVerificationSuccess
       THEN EtherscanReturn /\ UNCHANGED attempt
       ELSE attempt' = "full" /\ pc' = "verify" /\ UNCHANGED outcome

\* mutant: the error is given the linked libraries instead of the undetectable ones
AfterFullAttempt_LinkedLibraries ==
    /\ pc = "attemptReturned"
    /\ attempt = "full"
    /\ UNCHANGED <<outerVars, argVars, resolveVars, inputVars, attemptVars, logVars, result>>
    /\ IF fullCompilerInputVerificationSuccess
       THEN EtherscanReturn
       ELSE EtherscanThrow(Error("ContractVerificationFailedError",
               <<verificationMessage, contractInformation[1].libraries>>))

\* lines 344-351
AfterFullAttempt ==
    /\ pc = "attemptReturned"
    /\ attempt = "full"
    /\ UNCHANGED <<outerVars, argVars, resolveVars, inputVars, attemptVars, logVars, result>>
    /\ IF fullCompilerInputVerificationSuccess
       THEN EtherscanReturn
       ELSE EtherscanThrow(Error("ContractVerificationFailedError",
               <<verificationMessage, contractInformation[1].undetectableLibraries>>))

\* ------------------------------------------------------------- TASK_VERIFY
\* the command line: an address, a contract name, and the constructor arguments
\* and libraries either inline and absent, or both as module paths
VerifyTaskArgs ==
    [address : {Undefined} \cup InvalidAddresses \cup {"0xA1"},
     constructorArgsParams : {JsArray(<<"7">>)},
     constructorArgs : {Undefined},
     libraries : {JsUndefined},
     contract : {Undefined, "Foo", "A.sol:Foo"},
     listNetworks : BOOLEAN]
    \cup
    [address : {"0xA1"},
     constructorArgsParams : {JsArray(<<>>)},
     constructorArgs : {"args.js"},
     libraries : {JsString("libs.js")},
     contract : {Undefined, "A.sol:Foo"},
     listNetworks : {FALSE}]

\* lines 157-161
TaskVerify ==
    /\ pc = "idle"
    /\ entry' = "TASK_VERIFY"
    /\ \E a \in VerifyTaskArgs :
          /\ taskArgs' = a
          /\ pc' = IF a.listNetworks THEN "printSupportedNetworks"
                   ELSE "getVerificationSubtasks"
    /\ UNCHANGED <<config, batch, subtaskArgs, address, constructorArgs, libraries, contractFQN,
                   resolveVars, inputVars, attemptVars, logVars, outcome, result>>

\* lines 605-610, and the return of line 160
PrintSupportedNetworks ==
    /\ pc = "printSupportedNetworks"
    /\ pc' = "done"
    /\ \/ Log("printSupportedNetworks") /\ result' = Returned
       \/ /\ calls' = Append(calls, Call("printSupportedNetworks", attempt, 0, "throws", 0))
          /\ result' = Thrown(CollaboratorError("printSupportedNetworks"))
    /\ UNCHANGED <<outerVars, argVars, resolveVars, inputVars, attemptVars, requests, outcome>>

\* lines 187-207
verificationSubtasksOf(cfg) ==
    (IF cfg.etherscan THEN <<TASK_VERIFY_ETHERSCAN>> ELSE <<>>)
    \o (IF cfg.sourcify THEN <<TASK_VERIFY_SOURCIFY>>
        ELSE <<TASK_VERIFY_SOURCIFY_DISABLED_WARNING>>)

\* lines 163-168
GetVerificationSubtasks ==
    /\ pc = "getVerificationSubtasks"
    /\ batch' = [batch EXCEPT !.subtasks = verificationSubtasksOf(config)]
    /\ pc' = "nextSubtask"
    /\ UNCHANGED <<config, entry, subtaskArgs, argVars, resolveVars, inputVars, attemptVars, logVars,
                   outcome, result>>

\* mutant: the remaining subtasks are all started at once and awaited afterwards
RunSubtask_AllAtOnce ==
    /\ pc = "nextSubtask"
    /\ batch.next <= Len(batch.subtasks)
    /\ IF batch.subtasks[batch.next] = TASK_VERIFY_ETHERSCAN
       THEN IF MissingTaskArgument(taskArgs)
            THEN EtherscanThrow(MissingTaskArgumentError)
            ELSE pc' = "resolveArguments" /\ UNCHANGED outcome
       ELSE /\ pc' = IF batch.subtasks[batch.next] = TASK_VERIFY_SOURCIFY THEN "sourcify"
                     ELSE "sourcifyDisabledWarning"
            /\ UNCHANGED outcome
    /\ calls' = calls \o [k \in 1..(Len(batch.subtasks) - batch.next + 1) |->
                            Call(batch.subtasks[batch.next + k - 1], attempt, 0, "", 0)]
    /\ UNCHANGED <<outerVars, argVars, resolveVars, inputVars, attemptVars, requests, result>>

\* lines 169-171: the next subtask is run with the task's own arguments; a run
\* the runner refuses rejects without starting the subtask's action
RunSubtask ==
    /\ pc = "nextSubtask"
    /\ batch.next <= Len(batch.subtasks)
    /\ IF batch.subtasks[batch.next] = TASK_VERIFY_ETHERSCAN
       THEN IF MissingTaskArgument(taskArgs)
            THEN EtherscanThrow(MissingTaskArgumentError)
            ELSE pc' = "resolveArguments" /\ UNCHANGED outcome
       ELSE /\ pc' = IF batch.subtasks[batch.next] = TASK_VERIFY_SOURCIFY THEN "sourcify"
                     ELSE "sourcifyDisabledWarning"
            /\ UNCHANGED outcome
    /\ Log(batch.subtasks[batch.next])
    /\ UNCHANGED <<outerVars, argVars, resolveVars, inputVars, attemptVars, requests, result>>

\* mutant: the first error ends the loop
Caught_Aborts(b, subtask, error) ==
    [b EXCEPT !.hasErrors = TRUE,
              !.errors = {e \in b.errors : e[1] # subtask} \cup {<<subtask, error>>},
              !.next = Len(b.subtasks) + 1]
\* lines 172-175, then the loop goes on
Caught(b, subtask, error) ==
    [b EXCEPT !.hasErrors = TRUE,
              !.errors = {e \in b.errors : e[1] # subtask} \cup {<<subtask, error>>},
              !.next = b.next + 1]
Passed(b) == [b EXCEPT !.next = b.next + 1]

\* the awaited run of a subtask settles: it returned, or it threw
Settles(subtask, state) == calls' = Append(calls, Call(subtask, attempt, 0, state, 0))

\* TASK_VERIFY_ETHERSCAN came back to the loop (lines 171-176)
EtherscanSubtaskEnded ==
    /\ pc = "etherscanEnded"
    /\ entry = "TASK_VERIFY"
    /\ IF outcome.status = "thrown"
       THEN /\ batch' = Caught(batch, TASK_VERIFY_ETHERSCAN, outcome.error)
            /\ Settles(TASK_VERIFY_ETHERSCAN, "throws")
       ELSE /\ batch' = Passed(batch)
            /\ Settles(TASK_VERIFY_ETHERSCAN, "returned")
    /\ pc' = "nextSubtask"
    /\ UNCHANGED <<config, entry, subtaskArgs, argVars, resolveVars, inputVars, attemptVars, requests,
                   outcome, result>>

\* the Sourcify subtask, run and come back (lines 171-176)
SourcifySubtask ==
    /\ pc = "sourcify"
    /\ \/ /\ batch' = Passed(batch)
          /\ Settles(TASK_VERIFY_SOURCIFY, "returned")
       \/ /\ batch' = Caught(batch, TASK_VERIFY_SOURCIFY,
                              CollaboratorError(TASK_VERIFY_SOURCIFY))
          /\ Settles(TASK_VERIFY_SOURCIFY, "throws")
    /\ pc' = "nextSubtask"
    /\ UNCHANGED <<config, entry, subtaskArgs, argVars, resolveVars, inputVars, attemptVars, requests,
                   outcome, result>>

\* lines 211-223, run and come back
SourcifyDisabledWarning ==
    /\ pc = "sourcifyDisabledWarning"
    /\ batch' = Passed(batch)
    /\ Settles(TASK_VERIFY_SOURCIFY_DISABLED_WARNING, "returned")
    /\ pc' = "nextSubtask"
    /\ UNCHANGED <<config, entry, subtaskArgs, argVars, resolveVars, inputVars, attemptVars, requests,
                   outcome, result>>

\* lines 178-182: with errors they are printed and the process exits with code 1,
\* so the task never returns; without, the task returns
TaskVerifyEnd ==
    /\ pc = "nextSubtask"
    /\ batch.next > Len(batch.subtasks)
    /\ batch' = IF batch.hasErrors
                THEN [batch EXCEPT !.printed = Append(batch.printed, batch.errors),
                                   !.exitCode = 1, !.exited = TRUE]
                ELSE batch
    /\ pc' = "done"
    /\ result' = IF batch.hasErrors THEN result ELSE Returned
    /\ UNCHANGED <<config, entry, subtaskArgs, argVars, resolveVars, inputVars, attemptVars, logVars,
                   outcome>>

\* ------------------------------------------------------ TASK_VERIFY_VERIFY
\* a script's call of the verify:verify subtask
VerifySubtaskArgs ==
    [address : {Undefined, "0xA2"},
     constructorArguments : {JsArray(<<"7">>), JsString("7")},
     libraries : {JsObject({<<"Lib", "0xL1">>}), JsArray(<<>>), JsString("libs.js")},
     contract : {"Bar", "B.sol:Bar"}]

\* lines 596-601
EtherscanArgs(a) ==
    [address |-> a.address, constructorArgsParams |-> a.constructorArguments,
     constructorArgs |-> Undefined, libraries |-> a.libraries,
     contract |-> a.contract, listNetworks |-> FALSE]

\* mutant: an array is taken for a libraries object, as typeof alone would
VerifyVerify_ArrayLibrariesAccepted ==
    /\ pc = "idle"
    /\ entry' = "TASK_VERIFY_VERIFY"
    /\ \E a \in VerifySubtaskArgs :
          /\ subtaskArgs' = a
          /\ IF ~isArray(a.constructorArguments)
             THEN /\ result' = Thrown(Error("InvalidConstructorArgumentsError", <<>>))
                  /\ pc' = "done" /\ UNCHANGED <<taskArgs, outcome>>
             ELSE IF typeof(a.libraries) # "object"
             THEN /\ result' = Thrown(Error("InvalidLibrariesError", <<>>))
                  /\ pc' = "done" /\ UNCHANGED <<taskArgs, outcome>>
             ELSE /\ taskArgs' = EtherscanArgs(a)
                  /\ UNCHANGED result
                  /\ IF MissingTaskArgument(EtherscanArgs(a))
                     THEN EtherscanThrow(MissingTaskArgumentError)
                     ELSE pc' = "resolveArguments" /\ UNCHANGED outcome
    /\ UNCHANGED <<config, batch, address, constructorArgs, libraries, contractFQN,
                   resolveVars, inputVars, attemptVars, logVars>>

\* lines 583-601
VerifyVerify ==
    /\ pc = "idle"
    /\ entry' = "TASK_VERIFY_VERIFY"
    /\ \E a \in VerifySubtaskArgs :
          /\ subtaskArgs' = a
          /\ IF ~isArray(a.constructorArguments)
             THEN /\ result' = Thrown(Error("InvalidConstructorArgumentsError", <<>>))
                  /\ pc' = "done" /\ UNCHANGED <<taskArgs, outcome>>
             ELSE IF typeof(a.libraries) # "object" \/ isArray(a.libraries)
             THEN /\ result' = Thrown(Error("InvalidLibrariesError", <<>>))
                  /\ pc' = "done" /\ UNCHANGED <<taskArgs, outcome>>
             ELSE /\ taskArgs' = EtherscanArgs(a)
                  /\ UNCHANGED result
                  /\ IF MissingTaskArgument(EtherscanArgs(a))
                     THEN EtherscanThrow(MissingTaskArgumentError)
                     ELSE pc' = "resolveArguments" /\ UNCHANGED outcome
    /\ UNCHANGED <<config, batch, address, constructorArgs, libraries, contractFQN,
                   resolveVars, inputVars, attemptVars, logVars>>

\* line 596: the subtask's result is the result of TASK_VERIFY_ETHERSCAN
VerifyVerifyEnd ==
    /\ pc = "etherscanEnded"
    /\ entry = "TASK_VERIFY_VERIFY"
    /\ result' = outcome
    /\ pc' = "done"
    /\ UNCHANGED <<outerVars, argVars, resolveVars, inputVars, attemptVars, logVars, outcome>>

\* ----------------------------------------------------------- specification
Next ==
    \/ TaskVerify
    \/ PrintSupportedNetworks
    \/ GetVerificationSubtasks
    \/ RunSubtask
    \/ EtherscanSubtaskEnded
    \/ SourcifySubtask
    \/ SourcifyDisabledWarning
    \/ TaskVerifyEnd
    \/ VerifyVerify
    \/ VerifyVerifyEnd
    \/ RunResolveArguments
    \/ ResolveArgumentsEnd
    \/ ResolveArguments_validate
    \/ ResolveArguments_checks
    \/ ResolveArguments_constructorArgs
    \/ ResolveArguments_libraries
    \/ GetCurrentChainConfig
    \/ IsVerified
    \/ GetCompilerVersions
    \/ GetDeployedContractBytecode
    \/ GetMatchingVersions
    \/ ArtifactExists
    \/ GetBuildInfo
    \/ ExtractInferred
    \/ GetLibraryInformation
    \/ GetDependencyGraph
    \/ GetCompilationJobForFile
    \/ GetCompilerInput
    \/ EncodeArguments
    \/ AttemptVerification_submit
    \/ AttemptVerification_verify
    \/ AttemptVerification_sleep
    \/ AttemptVerification_getVerificationStatus
    \/ AfterMinimalAttempt
    \/ AfterFullAttempt

Spec == Init /\ [][Next]_vars

\* every awaited call settles (it answers or it rejects) and the continuation
\* of a settled await is run: the flow is never left suspended for ever
FairSpec == Spec /\ WF_vars(Next)

\* ------------------------------------------------------------- properties
\* positions in the call log of the status polls of an attempt, of the submissions
Polls(att) ==
    {i \in DOMAIN calls : calls[i].op = "getVerificationStatus" /\ calls[i].attempt = att}
Submits(att) ==
    {i \in DOMAIN calls : calls[i].op = "verify" /\ calls[i].attempt = att}
Ended == outcome.status # "running"

\* C1: once the minimal poll reported failure, a full poll reporting success ends
\* the task without error, and a full poll reporting failure ends it with
\* ContractVerificationFailedError carrying the full poll's message.
C1_FallbackOutcome ==
    \A i \in Polls("minimal"), j \in Polls("full") :
        (calls[i].state = "failure" /\ Ended) =>
            /\ calls[j].state = "success" => outcome = Returned
            /\ calls[j].state = "failure" =>
                  /\ outcome.status = "thrown"
                  /\ outcome.error.name = "ContractVerificationFailedError"
                  /\ outcome.error.args[1] = calls[j].message

C1_Witness ==
    \E i \in Polls("minimal"), j \in Polls("full") :
        /\ calls[i].state = "failure" /\ calls[j].state = "failure"
        /\ calls[i].message # calls[j].message
        /\ outcome.status = "thrown"
        /\ outcome.error.name = "ContractVerificationFailedError"

\* C2: a full-input submission comes only after the minimal poll answered
\* failure, and a minimal poll that answered success is followed by no
\* submission and by a return without error.
C2_FullOnlyAfterMinimalFailure ==
    /\ \A k \in Submits("full") :
          \E i \in Polls("minimal") : i < k /\ calls[i].state = "failure"
    /\ \A i \in Polls("minimal") :
          calls[i].state = "success" =>
             /\ Len(requests) = 1
             /\ Submits("full") = {}
             /\ outcome.status # "thrown"
             /\ pc \in {"attemptReturned", "etherscanEnded", "nextSubtask", "sourcify",
                        "sourcifyDisabledWarning", "done"}
             /\ pc # "attemptReturned" => outcome = Returned

C2_Witness ==
    /\ Submits("full") # {}
    /\ \E i \in Polls("minimal") : calls[i].state = "failure"
    /\ Len(requests) = 2

\* C3: a polled status that is neither success nor failure makes the attempt
\* throw VerificationAPIUnexpectedMessageError with the status message, and no
\* VerificationResponse is returned for that attempt.
C3_UnexpectedStatusThrows ==
    \A i \in DOMAIN calls :
        (calls[i].op = "getVerificationStatus"
            /\ calls[i].state \notin {"success", "failure", "throws"}) =>
           /\ outcome = Thrown(Error("VerificationAPIUnexpectedMessageError",
                                     <<calls[i].message>>))
           /\ responses[calls[i].attempt] = None

C3_Witness ==
    \E i \in Polls("full") :
        /\ calls[i].state = "pending"
        /\ outcome.status = "thrown"
        /\ outcome.error.name = "VerificationAPIUnexpectedMessageError"

\* The orchestrator's states, read off the position of the flow.
ResolvingSteps ==
    <<"resolveArguments", "importIsAddress", "resolveConstructorArguments",
      "resolveLibraries",
      "getCurrentChainConfig", "isVerified", "getCompilerVersions",
      "getDeployedContractBytecode",
      "getMatchingVersions", "getContractInformation", "getBuildInfo",
      "getLibraryInformation", "getDependencyGraph", "getCompilationJobForFile",
      "getCompilerInput", "encodeArguments">>
AttemptSteps ==
    <<"verify", "verifyAnswer", "sleep", "getVerificationStatus", "attemptReturned">>
IndexOf(seq, x) == CHOOSE i \in DOMAIN seq : seq[i] = x

Phase ==
    IF outcome.status = "returned" THEN "Success"
    ELSE IF outcome.status = "thrown" THEN "Failed"
    ELSE IF pc \in Range(ResolvingSteps) THEN "Resolving"
    ELSE IF pc \in Range(AttemptSteps) /\ attempt = "minimal" THEN "MinimalAttempt"
    ELSE IF pc \in Range(AttemptSteps) /\ attempt = "full" THEN "FullAttempt"
    ELSE "NotStarted"

\* how far the request is: the states in their order, and the steps within one
Progress ==
    IF Phase \in {"Success", "Failed"} THEN 400
    ELSE IF Phase = "FullAttempt" THEN 300 + IndexOf(AttemptSteps, pc)
    ELSE IF Phase = "MinimalAttempt" THEN 200 + IndexOf(AttemptSteps, pc)
    ELSE IF Phase = "Resolving" THEN 100 + IndexOf(ResolvingSteps, pc)
    ELSE 0

\* C4: a request makes at most two submissions, every step of it moves strictly
\* forward through Resolving, MinimalAttempt, FullAttempt to Success or Failed,
\* a terminal state is never left, and a request that was started reaches one.
C4_LinearAndTerminating ==
    /\ [](Len(requests) <= 2)
    /\ [][(Phase \notin {"NotStarted", "Success", "Failed"}) => Progress' > Progress]_vars
    /\ [][Ended => outcome' = outcome]_vars
    /\ [](pc = "resolveArguments" => <>Ended)

C4_Witness ==
    /\ Ended
    /\ Len(requests) = 2
    /\ Submits("minimal") # {} /\ Submits("full") # {}

\* C5: an attempt submits at most once and polls at most once; a poll comes
\* right after the settling delay that follows the submission of the same
\* attempt and asks for the token that submission returned; an attempt that
\* returned a response made exactly one submission and one poll.
C5_OneSubmissionOnePoll ==
    \A att \in {"minimal", "full"} :
        /\ Cardinality(Submits(att)) <= 1
        /\ Cardinality(Polls(att)) <= 1
        /\ \A k \in Polls(att) :
              /\ k >= 3
              /\ calls[k - 1].op = "sleep" /\ calls[k - 1].attempt = att
              /\ calls[k - 1].arg = 700
              /\ calls[k - 2].op = "verify" /\ calls[k - 2].attempt = att
              /\ calls[k - 2].state = "ok"
              /\ calls[k].arg = calls[k - 2].arg
        /\ responses[att] # None =>
              Cardinality(Submits(att)) = 1 /\ Cardinality(Polls(att)) = 1

C5_Witness ==
    \E i \in Submits("minimal"), j \in Submits("full"), k \in Polls("full") :
        /\ calls[i].arg # calls[j].arg
        /\ calls[k].arg = calls[j].arg
        /\ responses["full"] # None

\* the collaborators awaited while resolving whose rejection nothing catches,
\* and the errors index.ts itself raises while resolving
ResolvingCollaborators ==
    {IMPORT_ADDRESS, "resolveConstructorArguments", "resolveLibraries",
     "getCurrentChainConfig", "isVerified", "getCompilerVersions",
     "getDeployedContractBytecode", "getMatchingVersions", "getBuildInfo",
     "extractInferredContractInformation",
     "getLibraryInformation", "getDependencyGraph", "getCompilationJobForFile",
     "getCompilerInput", "encodeArguments"}
ResolvingErrors ==
    {"MissingAddressError", "InvalidAddressError", "InvalidContractNameError",
     "CompilerVersionsMismatchError", "ContractNotFoundError", "BuildInfoNotFoundError",
     "BuildInfoCompilerVersionMismatchError", "DeployedBytecodeMismatchError",
     "UnexpectedNumberOfFilesError"}
RemoteCalls ==
    {i \in DOMAIN calls : calls[i].op \in {"verify", "sleep", "getVerificationStatus"}}

\* C6: a collaborator that rejects while resolving ends the task with that
\* rejection, an error index.ts raises while resolving ends it with that error,
\* in both cases with no submission, delay or poll made; and once the task has
\* thrown, its error stays and nothing more is submitted or polled.
C6_ResolvingFailureIsTerminal ==
    /\ [](\A i \in DOMAIN calls :
            (calls[i].state = "throws" /\ calls[i].op \in ResolvingCollaborators) =>
               /\ outcome = Thrown(CollaboratorError(calls[i].op))
               /\ requests = <<>> /\ RemoteCalls = {})
    /\ []((outcome.status = "thrown" /\ outcome.error.name \in ResolvingErrors) =>
             (requests = <<>> /\ RemoteCalls = {}))
    /\ [][outcome.status = "thrown" =>
             (outcome' = outcome /\ requests' = requests /\ RemoteCalls' = RemoteCalls)]_vars

C6_Witness ==
    /\ outcome = Thrown(CollaboratorError("encodeArguments"))
    /\ contractInformation # None /\ minimalInput # NullRef
    /\ requests = <<>> /\ RemoteCalls = {}
    /\ pc = "done"

Called(op) == \E i \in DOMAIN calls : calls[i].op = op
ThrownNamed(name) == outcome.status = "thrown" /\ outcome.error.name = name
\* the collaborator was awaited and answered
Answered(op) == \E i \in DOMAIN calls : calls[i].op = op /\ calls[i].state = ""

\* C7: once the versions are matched, CompilerVersionsMismatchError is the
\* task's error exactly when no version matched and the bytecode is not
\* alternate-VM; with no version matched and alternate-VM bytecode the task goes
\* on to resolve the contract.
C7_VersionsMismatchUnlessOvm ==
    /\ ThrownNamed("CompilerVersionsMismatchError") => Answered("getMatchingVersions")
    /\ Answered("getMatchingVersions") =>
          /\ ThrownNamed("CompilerVersionsMismatchError")
                <=> (matchingCompilerVersions = <<>> /\ ~deployedBytecode[1].isOvm)
          /\ (matchingCompilerVersions = <<>> /\ deployedBytecode[1].isOvm) =>
                \/ pc = "getContractInformation"
                \/ Called("artifactExists")
                \/ Called("extractInferredContractInformation")

C7_Witness ==
    /\ Answered("getMatchingVersions")
    /\ matchingCompilerVersions = <<>> /\ deployedBytecode[1].isOvm
    /\ ~ThrownNamed("CompilerVersionsMismatchError")
    /\ contractInformation # None

\* the build info's compiler version is none of the matched versions
NotAmongMatched ==
    \A i \in DOMAIN matchingCompilerVersions :
        matchingCompilerVersions[i] # buildInfo[1].solcVersion

\* C8: in named mode with the build info loaded, a compiler version that is not
\* among the matched ones ends resolution with BuildInfoCompilerVersionMismatchError
\* and without any bytecode comparison when the bytecode is not alternate-VM,
\* whether or not the bytecodes are equal; for alternate-VM bytecode the check
\* is skipped and the comparison is made.
C8_BuildInfoVersionChecked ==
    (buildInfo # None /\ NotAmongMatched) =>
        IF deployedBytecode[1].isOvm
        THEN /\ ~ThrownNamed("BuildInfoCompilerVersionMismatchError")
             /\ Called("extractMatchingContractInformation")
        ELSE /\ ThrownNamed("BuildInfoCompilerVersionMismatchError")
             /\ outcome.error.args[1] = contractFQN
             /\ outcome.error.args[4] = buildInfo[1].solcVersion
             /\ ~Called("extractMatchingContractInformation")
             /\ contractInformation = None

C8_Witness ==
    /\ buildInfo # None /\ NotAmongMatched
    /\ ~deployedBytecode[1].isOvm
    /\ buildInfo[1].code = deployedBytecode[1].code
    /\ ThrownNamed("BuildInfoCompilerVersionMismatchError")

\* C9: with a fully-qualified name the scan over the other artifacts is never
\* run, and when the named contract's bytecode is compared and differs from the
\* deployed one, resolution ends with DeployedBytecodeMismatchError naming the
\* network and the contract.
C9_NamedModeExactOrFail ==
    /\ contractFQN # Undefined => ~Called("extractInferredContractInformation")
    /\ (Called("extractMatchingContractInformation")
            /\ buildInfo[1].code # deployedBytecode[1].code) =>
          /\ outcome = Thrown(Error("DeployedBytecodeMismatchError",
                                    <<NetworkName, contractFQN>>))
          /\ contractInformation = None

C9_Witness ==
    /\ contractFQN # Undefined
    /\ Called("extractMatchingContractInformation")
    /\ buildInfo[1].code # deployedBytecode[1].code
    /\ ThrownNamed("DeployedBytecodeMismatchError")
    /\ pc = "done"

\* C10: for alternate-VM bytecode in named mode with no matched version, a
\* differing bytecode still ends resolution with DeployedBytecodeMismatchError
\* and a contract is resolved only when the bytecodes are equal; and whenever a
\* submission has been made, the resolved contract's bytecode is the deployed one.
C10_OvmStillCompared ==
    /\ (buildInfo # None /\ deployedBytecode[1].isOvm /\ matchingCompilerVersions = <<>>) =>
          /\ buildInfo[1].code # deployedBytecode[1].code =>
                ThrownNamed("DeployedBytecodeMismatchError")
          /\ contractInformation # None =>
                buildInfo[1].code = deployedBytecode[1].code
    /\ requests # <<>> =>
          /\ contractInformation # None
          /\ contractInformation[1].code = deployedBytecode[1].code
          /\ contractFQN # Undefined =>
                (buildInfo # None /\ buildInfo[1].code = deployedBytecode[1].code)

C10_Witness ==
    /\ contractFQN # Undefined
    /\ deployedBytecode # None /\ deployedBytecode[1].isOvm
    /\ matchingCompilerVersions = <<>>
    /\ buildInfo # None /\ buildInfo[1].code = deployedBytecode[1].code
    /\ requests # <<>>

\* ------------------------------------------------- properties of the batch
SubtaskNames ==
    {TASK_VERIFY_ETHERSCAN, TASK_VERIFY_SOURCIFY, TASK_VERIFY_SOURCIFY_DISABLED_WARNING}
\* positions in the call log where a subtask was started, and how its run settled
Starts(subtask) == {i \in DOMAIN calls : calls[i].op = subtask /\ calls[i].state = ""}
Settled(subtask, state) ==
    \E i \in DOMAIN calls : calls[i].op = subtask /\ calls[i].state = state
BatchEnded == entry = "TASK_VERIFY" /\ ~taskArgs.listNetworks /\ pc = "done"
SomeSubtaskFailed == \E s \in SubtaskNames : Settled(s, "throws")
ErrorsOf(subtask) == {e \in batch.errors : e[1] = subtask}

\* C11: in the TASK_VERIFY batch every subtask the configuration yields is run
\* once, whether or not an earlier one threw; a subtask has an error recorded
\* exactly when it threw, one error under its own name (for the Etherscan
\* subtask the error it threw); nothing is printed before the last subtask has
\* settled; and at the end the recorded errors are printed in one call and the
\* process exits with code 1 if some subtask threw, and otherwise nothing is
\* printed, nothing exits and the task returns.
C11_BatchCollectsErrors ==
    /\ \A s \in SubtaskNames :
          /\ Settled(s, "throws") <=> ErrorsOf(s) # {}
          /\ Cardinality(ErrorsOf(s)) <= 1
    /\ Settled(TASK_VERIFY_ETHERSCAN, "throws") =>
          ErrorsOf(TASK_VERIFY_ETHERSCAN) = {<<TASK_VERIFY_ETHERSCAN, outcome.error>>}
    /\ (batch.printed # <<>> \/ batch.exited) => BatchEnded
    /\ BatchEnded =>
          /\ \A k \in DOMAIN verificationSubtasksOf(config) :
                LET s == verificationSubtasksOf(config)[k] IN
                /\ Cardinality(Starts(s)) = 1
                /\ Settled(s, "returned") \/ Settled(s, "throws")
          /\ batch.exited <=> SomeSubtaskFailed
          /\ batch.exitCode = IF SomeSubtaskFailed THEN 1 ELSE 0
          /\ batch.printed = IF SomeSubtaskFailed THEN <<batch.errors>> ELSE <<>>
          /\ ~SomeSubtaskFailed => result = Returned

C11_Witness ==
    /\ BatchEnded
    /\ Settled(TASK_VERIFY_ETHERSCAN, "throws") /\ Settled(TASK_VERIFY_SOURCIFY, "throws")
    /\ \E i \in Starts(TASK_VERIFY_SOURCIFY) :
          \E j \in 1..(i - 1) :
             calls[j].op = TASK_VERIFY_ETHERSCAN /\ calls[j].state = "throws"
    /\ Cardinality(batch.errors) = 2
    /\ batch.printed = <<batch.errors>> /\ batch.exitCode = 1

\* ------------------------------------------- properties of the submissions
\* C12: every submission carries the address the task was given, the resolved
\* contract's sourceName:contractName, "v" and its solcLongVersion, the encoded
\* constructor arguments, and a compiler input whose settings.libraries are the
\* resolved contract's libraries; with two submissions the first is the minimal
\* and the second the full one, the four identity fields are the same in both,
\* and the full submission's compiler input is contractInformation.compilerInput,
\* the input of the whole compilation.
C12_SameIdentityBothAttempts ==
    /\ \A k \in DOMAIN requests :
          /\ requests[k].address = taskArgs.address
          /\ requests[k].contract = contractInformation[1].sourceName \o ":"
                                       \o contractInformation[1].contractName
          /\ requests[k].compilerVersion = "v" \o contractInformation[1].solcLongVersion
          /\ requests[k].constructorArguments = encodedConstructorArguments
          /\ requests[k].compilerInput.settings.libraries = contractInformation[1].libraries
    /\ Len(requests) = 2 =>
          /\ requests[1].attempt = "minimal" /\ requests[2].attempt = "full"
          /\ requests[1].address = requests[2].address
          /\ requests[1].contract = requests[2].contract
          /\ requests[1].compilerVersion = requests[2].compilerVersion
          /\ requests[1].constructorArguments = requests[2].constructorArguments
          /\ requests[1].compilerInput.settings = requests[2].compilerInput.settings
          /\ requests[2].compilerInput = heap[contractInformation[1].compilerInput][1]
          /\ requests[2].compilerInput.sources = ProjectSources

C12_Witness ==
    /\ Len(requests) = 2
    /\ contractInformation[1].libraries # NoLibraries
    /\ requests[1].compilerInput.sources # requests[2].compilerInput.sources
    /\ requests[2].constructorArguments # ""

\* the request has not gone past its minimal attempt
NoFullAttempt ==
    /\ attempt = "minimal"
    /\ Submits("full") = {} /\ Polls("full") = {}
    /\ Len(requests) = 1
    /\ responses["full"] = None

\* C13: when the minimal attempt's submission throws, or its status poll throws
\* or reports a state that is neither success nor failure, the request ends
\* with that error (VerificationAPIUnexpectedMessageError with the reported
\* message for an unrecognized state), the full attempt is never started, and
\* the error is not ContractVerificationFailedError.
C13_MinimalErrorFailsFast ==
    \A i \in DOMAIN calls :
        calls[i].attempt = "minimal" =>
           /\ (calls[i].op \in {"verify", "getVerificationStatus"}
                  /\ calls[i].state = "throws") =>
                 /\ outcome = Thrown(CollaboratorError(calls[i].op))
                 /\ NoFullAttempt
           /\ (calls[i].op = "getVerificationStatus"
                  /\ calls[i].state \notin {"success", "failure", "throws"}) =>
                 /\ outcome = Thrown(Error("VerificationAPIUnexpectedMessageError",
                                           <<calls[i].message>>))
                 /\ NoFullAttempt
                 /\ responses["minimal"] = None

C13_Witness ==
    /\ \E i \in Submits("minimal") : calls[i].state = "throws"
    /\ outcome = Thrown(CollaboratorError("verify"))
    /\ NoFullAttempt
    /\ pc = "done"

\* where in the call log the run of the k-th subtask of the batch settled
Ends(k) ==
    {i \in DOMAIN calls : /\ calls[i].op = batch.subtasks[k]
                          /\ calls[i].state \in {"returned", "throws"}}
InProgress(k) == Starts(batch.subtasks[k]) # {} /\ Ends(k) = {}
\* a step of the program that starts a subtask later in the batch than the k-th
StartsLaterThan(k) ==
    /\ Next
    /\ \E j \in (k + 1)..Len(batch.subtasks) :
          calls' = Append(calls, Call(batch.subtasks[j], attempt, 0, "", 0))

\* C14, as claimed: the subtasks of a batch are parallel jobs, so while one is
\* in progress a later one can be started.
C14_LaterSubtaskCanStartEarly ==
    \A k \in DOMAIN batch.subtasks :
        (InProgress(k) /\ k < Len(batch.subtasks)) => ENABLED StartsLaterThan(k)

\* C14, amended: the subtasks of a batch are run one after another in the order
\* of the list: whenever a subtask has been started, every earlier subtask of
\* the list has settled before that start, so no two runs overlap.
C14_SubtasksRunOneAtATime ==
    \A j \in DOMAIN batch.subtasks :
        \A s \in Starts(batch.subtasks[j]) :
            \A k \in 1..(j - 1) : \E e \in Ends(k) : e < s

C14_Witness ==
    /\ Len(batch.subtasks) = 2
    /\ requests # <<>>
    /\ \E s \in Starts(batch.subtasks[2]) : \E e \in Ends(1) : e < s

\* C15: whenever the request's error is ContractVerificationFailedError, its
\* second argument is the undetectable-library list of the resolved contract
\* information, and both the minimal and the full attempt polled a failure
\* status and returned a response without success; any other way the request
\* ends, by a return or by another error, is not this error.
C15_FailedErrorOnlyAfterBothFailed ==
    /\ ThrownNamed("ContractVerificationFailedError") =>
          /\ contractInformation # None
          /\ outcome.error.args[2] = contractInformation[1].undetectableLibraries
          /\ \A att \in {"minimal", "full"} :
                /\ \E i \in Polls(att) : calls[i].state = "failure"
                /\ responses[att] # None /\ ~responses[att][1].success
          /\ Len(requests) = 2
    /\ (Ended /\ \E att \in {"minimal", "full"} :
                    \A i \in Polls(att) : calls[i].state # "failure") =>
          ~ThrownNamed("ContractVerificationFailedError")

C15_Witness ==
    /\ ThrownNamed("ContractVerificationFailedError")
    /\ outcome.error.args[2] = {"Lib"}
    /\ contractInformation[1].undetectableLibraries = {"Lib"}
    /\ pc = "done"

\* positions of the resolved files of the dependency graph with the given source name
FilesNamed(sourceName) ==
    {i \in DOMAIN dependencyGraph[1] : dependencyGraph[1][i] = sourceName}

\* C16: once the dependency graph is built, the request's error is
\* UnexpectedNumberOfFilesError exactly when the number of its resolved files
\* named as the resolved contract's source is not 1; then neither the
\* compilation-job nor the compiler-input collaborator has been called and no
\* minimal input exists; with exactly one such file the compilation job is
\* asked for next.  The error is raised nowhere else.
C16_UnexpectedNumberOfFiles ==
    /\ ThrownNamed("UnexpectedNumberOfFilesError") => dependencyGraph # None
    /\ dependencyGraph # None =>
          /\ ThrownNamed("UnexpectedNumberOfFilesError")
                <=> Cardinality(FilesNamed(contractInformation[1].sourceName)) # 1
          /\ ThrownNamed("UnexpectedNumberOfFilesError") =>
                /\ ~Called("getCompilationJobForFile")
                /\ ~Called("getCompilerInput")
                /\ heap["compilerInput"] = None /\ minimalInput = NullRef
          /\ Cardinality(FilesNamed(contractInformation[1].sourceName)) = 1 =>
                pc = "getCompilationJobForFile" \/ Called("getCompilationJobForFile")

C16_Witness ==
    /\ dependencyGraph # None
    /\ Cardinality(FilesNamed(contractInformation[1].sourceName)) = 2
    /\ Len(dependencyGraph[1]) = 3
    /\ ThrownNamed("UnexpectedNumberOfFilesError")
    /\ ~Called("getCompilationJobForFile")

\* ------------------------------------- properties of the argument resolution
BareNames == ContractNames
\* the error the three checks are to give for the arguments, None when all pass
ExpectedArgumentError(a) ==
    IF a.address = Undefined THEN Some(Error("MissingAddressError", <<>>))
    ELSE IF a.address \in InvalidAddresses
    THEN Some(Error("InvalidAddressError", <<a.address>>))
    ELSE IF a.contract \in BareNames
    THEN Some(Error("InvalidContractNameError", <<a.contract>>))
    ELSE None
ArgumentErrors == {"MissingAddressError", "InvalidAddressError", "InvalidContractNameError"}
ArgumentsResolved ==
    \/ pc = "getCurrentChainConfig" \/ Called("getCurrentChainConfig")
    \/ entry = TASK_VERIFY_RESOLVE_ARGUMENTS /\ outcome = Returned

\* the import of the address module rejects in this step
ImportRejects == outcome' = Thrown(CollaboratorError(IMPORT_ADDRESS))

\* C17: the validation of the arguments ends the request with
\* MissingAddressError for an undefined address, else, once the address module
\* is imported, with InvalidAddressError for an invalid address, else with
\* InvalidContractNameError for a contract name that is not fully qualified,
\* and goes on to the constructor arguments only when all three pass; an argument error is the request's error only for such
\* arguments and then nothing was resolved; constructor arguments and
\* libraries are resolved only for arguments that pass; and once the arguments
\* are resolved the address and the contractFQN are the ones supplied.
C17_ValidationOrder ==
    /\ [][pc = "resolveArguments" =>
             IF taskArgs.address = Undefined
             THEN outcome' = Thrown(Error("MissingAddressError", <<>>))
             ELSE outcome' = Running /\ pc' = "importIsAddress"]_vars
    /\ [][(pc = "importIsAddress" /\ ~ImportRejects) =>
             IF ExpectedArgumentError(taskArgs) # None
             THEN outcome' = Thrown(ExpectedArgumentError(taskArgs)[1])
             ELSE outcome' = Running /\ pc' = "resolveConstructorArguments"]_vars
    /\ []((outcome.status = "thrown" /\ outcome.error.name \in ArgumentErrors) =>
             /\ outcome.error = ExpectedArgumentError(taskArgs)[1]
             /\ ~Called("resolveConstructorArguments") /\ ~Called("resolveLibraries")
             /\ ~ArgumentsResolved)
    /\ []((Called("resolveConstructorArguments") \/ Called("resolveLibraries")
             \/ ArgumentsResolved) =>
             ExpectedArgumentError(taskArgs) = None)
    /\ [](ArgumentsResolved =>
             /\ address = taskArgs.address /\ address \in ValidAddresses
             /\ contractFQN = taskArgs.contract
             /\ contractFQN \notin BareNames)

C17_Witness ==
    /\ taskArgs.address \in InvalidAddresses /\ taskArgs.contract \in BareNames
    /\ Answered(IMPORT_ADDRESS)
    /\ outcome = Thrown(Error("InvalidAddressError", <<taskArgs.address>>))
    /\ ~Called("resolveConstructorArguments")

\* ------------------------------------- properties of the contract resolution
NamedModeErrors ==
    {"ContractNotFoundError", "BuildInfoNotFoundError",
     "BuildInfoCompilerVersionMismatchError", "DeployedBytecodeMismatchError"}

\* C18: in named mode an artifactExists that answers false or throws ends the
\* request with ContractNotFoundError before the build info is asked for; else
\* a build info that is not found ends it with BuildInfoNotFoundError; else a
\* compiler version that is not among the matched ones (for bytecode that is
\* not alternate-VM) ends it with BuildInfoCompilerVersionMismatchError before
\* any comparison, also when the bytecodes differ; else differing bytecodes
\* end it with DeployedBytecodeMismatchError; and the library information is
\* asked for only after all four passed.
C18_NamedResolutionOrder ==
    /\ (Settled("artifactExists", "false") \/ Settled("artifactExists", "throws")) =>
          /\ outcome = Thrown(Error("ContractNotFoundError", <<contractFQN>>))
          /\ ~Called("getBuildInfo") /\ buildInfo = None
    /\ Called("getBuildInfo") => Settled("artifactExists", "true")
    /\ (Settled("getBuildInfo", "") /\ buildInfo = None) =>
          /\ outcome = Thrown(Error("BuildInfoNotFoundError", <<contractFQN>>))
          /\ ~Called("extractMatchingContractInformation")
    /\ buildInfo # None =>
          IF NotAmongMatched /\ ~deployedBytecode[1].isOvm
          THEN /\ ThrownNamed("BuildInfoCompilerVersionMismatchError")
               /\ ~Called("extractMatchingContractInformation")
          ELSE IF buildInfo[1].code # deployedBytecode[1].code
          THEN ThrownNamed("DeployedBytecodeMismatchError")
          ELSE /\ contractInformation # None
               /\ pc = "getLibraryInformation" \/ Called("getLibraryInformation")
    /\ (outcome.status = "thrown" /\ outcome.error.name \in NamedModeErrors) =>
          /\ contractFQN # Undefined
          /\ ~Called("getLibraryInformation") /\ contractInformation = None
    /\ (contractFQN # Undefined /\ Called("getLibraryInformation")) =>
          /\ Settled("artifactExists", "true")
          /\ buildInfo # None
          /\ ~(NotAmongMatched /\ ~deployedBytecode[1].isOvm)
          /\ buildInfo[1].code = deployedBytecode[1].code

C18_Witness ==
    /\ Settled("artifactExists", "throws")
    /\ outcome = Thrown(Error("ContractNotFoundError", <<"A.sol:Foo">>))
    /\ ~Called("getBuildInfo")
    /\ pc = "done"

\* C19: once the explorer has answered that the address is already verified,
\* TASK_VERIFY_ETHERSCAN has returned without error, and the deployed bytecode
\* was not fetched, no version was matched, no contract was resolved, and no
\* submission, delay or status poll was made; nothing of it happens later.
C19_AlreadyVerifiedReturnsEarly ==
    Settled("isVerified", "true") =>
        /\ outcome = Returned
        /\ ~Called("getCompilerVersions") /\ configCompilerVersions = <<>>
        /\ ~Called("getDeployedContractBytecode") /\ deployedBytecode = None
        /\ ~Called("getMatchingVersions")
        /\ ~Called("artifactExists") /\ ~Called("extractInferredContractInformation")
        /\ contractInformation = None /\ minimalInput = NullRef
        /\ requests = <<>> /\ RemoteCalls = {}
        /\ (entry = "TASK_VERIFY_VERIFY" /\ pc = "done") => result = Returned
        /\ entry = "TASK_VERIFY" => ErrorsOf(TASK_VERIFY_ETHERSCAN) = {}

C19_Witness ==
    /\ Settled("isVerified", "true")
    /\ outcome = Returned
    /\ requests = <<>>
    /\ pc = "done"

\* ------------------------------------------ properties of the compiler inputs
\* C20: once the minimal attempt has injected the libraries, the object it
\* wrote to is the copy GET_MINIMAL_INPUT returned, an object of its own; the
\* compiler input the compile task produced still has the graph's sources and
\* no libraries; and until the full attempt is started
\* contractInformation.compilerInput is as it was resolved, so that the full
\* submission is that input with the libraries injected.
C20_InjectionTouchesOnlyTheCopy ==
    requests # <<>> =>
        /\ minimalInput \notin {"compilerInput", contractInformation[1].compilerInput}
        /\ heap[minimalInput] =
              Some([sources |-> Range(dependencyGraph[1]),
                    settings |-> [libraries |-> contractInformation[1].libraries]])
        /\ heap["compilerInput"] =
              Some([sources |-> Range(dependencyGraph[1]),
                    settings |-> [libraries |-> NoLibraries]])
        /\ Len(requests) = 1 =>
              heap[contractInformation[1].compilerInput] =
                 Some([sources |-> ProjectSources, settings |-> [libraries |-> NoLibraries]])
        /\ Len(requests) = 2 =>
              requests[2].compilerInput =
                 [sources |-> ProjectSources,
                  settings |-> [libraries |-> contractInformation[1].libraries]]

C20_Witness ==
    /\ Len(requests) = 1
    /\ attempt = "full" /\ pc = "verify"
    /\ contractInformation[1].libraries # NoLibraries
    /\ requests[1].compilerInput.settings.libraries = contractInformation[1].libraries
    /\ heap["compilerInput"][1].settings.libraries = NoLibraries
    /\ heap[contractInformation[1].compilerInput][1].settings.libraries = NoLibraries

\* --------------------------------------- properties of TASK_VERIFY_VERIFY
\* the subtask ended at its own checks: TASK_VERIFY_ETHERSCAN was never run
NoVerificationWork ==
    /\ pc = "done"
    /\ taskArgs = NoArgs /\ outcome = Running
    /\ calls = <<>> /\ requests = <<>>
    /\ address = Undefined /\ deployedBytecode = None /\ contractInformation = None

\* C21: a run of TASK_VERIFY_VERIFY whose constructorArguments is not an array
\* has thrown InvalidConstructorArgumentsError, whatever its libraries are;
\* otherwise one whose libraries is not an object, or is an array, has thrown
\* InvalidLibrariesError; in both cases TASK_VERIFY_ETHERSCAN was not run and
\* no verification work was done.  Only when both checks pass is
\* TASK_VERIFY_ETHERSCAN run, with the address, the constructor arguments as
\* constructorArgsParams, the libraries and the contract that were given, and
\* then the subtask ends as TASK_VERIFY_ETHERSCAN ends.
C21_MalformedInputRejected ==
    entry = "TASK_VERIFY_VERIFY" =>
        IF subtaskArgs.constructorArguments.type # "array"
        THEN /\ result = Thrown(Error("InvalidConstructorArgumentsError", <<>>))
             /\ NoVerificationWork
        ELSE IF subtaskArgs.libraries.type # "object"
        THEN /\ result = Thrown(Error("InvalidLibrariesError", <<>>))
             /\ NoVerificationWork
        ELSE /\ taskArgs.address = subtaskArgs.address
             /\ taskArgs.constructorArgsParams = subtaskArgs.constructorArguments
             /\ taskArgs.libraries = subtaskArgs.libraries
             /\ taskArgs.contract = subtaskArgs.contract
             /\ taskArgs.constructorArgs = Undefined
             /\ pc = "done" => (Ended /\ result = outcome)
             /\ pc # "done" => result = Running

C21_Witness ==
    /\ entry = "TASK_VERIFY_VERIFY"
    /\ subtaskArgs.constructorArguments.type = "array"
    /\ subtaskArgs.libraries.type = "array"
    /\ result = Thrown(Error("InvalidLibrariesError", <<>>))
    /\ NoVerificationWork

====
